---- MODULE Spec2Model ----
(***************************************************************************)
(* Model of the educational_platform front end:                            *)
(*   - the signup page          (frontend/src/app/sigunp.tsx)              *)
(*   - the markdown editor page (frontend/src/app/markdown-editor-test)    *)
(*   - the PWA build configuration (next.config.js)                        *)
(* JavaScript strings are sequences of UTF-16 code units.                  *)
(***************************************************************************)
EXTENDS Integers, Sequences, FiniteSets, TLC

VARIABLES signup, typed, lastOp, twin, editor, lastChange, config

vars == <<signup, typed, lastOp, twin, editor, lastChange, config>>

\* ---------------------------------------------------------------- bounds
\* Most alerts one signup page shows in a run of the model.
MaxAlerts == 2

\* ---------------------------------------------------------------- values
\* Texts a user types into a signup field:
\* "", "x", "x@y" (code units: x=120, y=121, @=64).
FieldValues == { <<>>, <<120>>, <<120, 64, 121>> }

\* Marks a signup field that has received no change event yet.
NoEvent == <<0>>

\* JavaScript values that may be undefined: a string or undefined.
Str(s) == [t |-> "string", v |-> s]
Undefined == [t |-> "undefined"]

\* Marks an editor that has reported no change yet.
NoChange == [t |-> "none"]

\* What MDEditor's onChange may report (value?: string):
\* undefined, "", "#", "$x$", "a\n".
EditorEvents ==
  { Undefined, Str(<<>>), Str(<<35>>), Str(<<36, 120, 36>>), Str(<<97, 10>>) }

\* Values of process.env.NODE_ENV when next.config.js is loaded.
NodeEnvs ==
  { Undefined, Str("development"), Str("production"), Str("test"),
    Str("Development"), Str("") }

\* ------------------------------------------------------- signup component
\* useState('') x3: the component state after mount, with what the three
\* controlled inputs show, the alerts shown so far, the number of
\* handleSignup invocations and of preventDefault calls.
SignupInit ==
  [ name |-> <<>>, email |-> <<>>, password |-> <<>>,
    shown |-> [name |-> <<>>, email |-> <<>>, password |-> <<>>],
    alerts |-> <<>>, invoked |-> 0, prevented |-> 0 ]

\* The re-render after a state update: each input is controlled by its own
\* state variable (value={name}, value={email}, value={password}).
Render(s) ==
  [s EXCEPT !.shown = [name |-> s.name, email |-> s.email,
                       password |-> s.password]]

\* onChange={(e) => setName(e.target.value)}
SetName(s, v) == Render([s EXCEPT !.name = v])

\* Variant: the email input's handler written with the name setter.
SetEmailIntoName(s, v) == Render([s EXCEPT !.name = v])

\* onChange={(e) => setEmail(e.target.value)}
SetEmail(s, v) == Render([s EXCEPT !.email = v])

\* Variant: typing a password also clears the email field.
SetPasswordClearsEmail(s, v) == Render([s EXCEPT !.password = v, !.email = <<>>])

\* onChange={(e) => setPassword(e.target.value)}
SetPassword(s, v) == Render([s EXCEPT !.password = v])

\* The literal text of the template: "تم التسجيل: " and ", ".
AlertPrefix == <<1578, 1605, 32, 1575, 1604, 1578, 1587, 1580, 1610, 1604, 58, 32>>
AlertSeparator == <<44, 32>>

\* Variant: the message leaves the email out.
AlertTextNameOnly(s) == AlertPrefix \o s.name

\* Variant: the message echoes the password too.
AlertTextWithPassword(s) ==
  AlertPrefix \o s.name \o AlertSeparator \o s.email \o AlertSeparator \o s.password

\* `تم التسجيل: ${name}, ${email}`
AlertText(s) == AlertPrefix \o s.name \o AlertSeparator \o s.email

\* Variant: the handler returns without an alert when the name is empty.
handleSignupRejectsEmpty(s) ==
  IF s.name = <<>>
    THEN [s EXCEPT !.prevented = @ + 1, !.invoked = @ + 1]
    ELSE [s EXCEPT !.prevented = @ + 1, !.invoked = @ + 1,
                   !.alerts = Append(@, AlertPrefix \o s.name \o AlertSeparator \o s.email)]

\* Variant: the handler resets the form after the alert.
handleSignupResets(s) ==
  Render([s EXCEPT !.prevented = @ + 1, !.invoked = @ + 1,
                   !.alerts = Append(@, AlertPrefix \o s.name \o AlertSeparator \o s.email),
                   !.name = <<>>, !.email = <<>>, !.password = <<>>])

\* handleSignup: e.preventDefault() then alert(...); no state setter is called.
handleSignup(s) ==
  [s EXCEPT !.prevented = @ + 1,
            !.invoked = @ + 1,
            !.alerts = Append(@, AlertText(s))]

\* ---- native constraint validation of the form (attributes of the inputs)
IsAlnum(c) == (c >= 48 /\ c <= 57) \/ (c >= 65 /\ c <= 90) \/ (c >= 97 /\ c <= 122)

\* atext of the HTML valid-e-mail-address production: alnum or one of
\* . ! # $ % & ' * + / = ? ^ _ ` { | } ~ -
IsAtext(c) ==
  IsAlnum(c) \/ c \in {46, 33, 35, 36, 37, 38, 39, 42, 43, 47, 61, 63,
                       94, 95, 96, 123, 124, 125, 126, 45}

\* A domain: labels of alnum or "-" separated by ".", no label empty and
\* none starting or ending with "-".
IsDomain(d) ==
  /\ Len(d) > 0
  /\ \A i \in 1..Len(d) : IsAlnum(d[i]) \/ d[i] = 45 \/ d[i] = 46
  /\ \A i \in 1..Len(d) :
       (d[i] = 46 \/ d[i] = 45) =>
         /\ i > 1 /\ i < Len(d)
         /\ (d[i] = 46 => d[i-1] # 45 /\ d[i-1] # 46 /\ d[i+1] # 45 /\ d[i+1] # 46)

\* type="email": the value is a valid e-mail address, local@domain.
ValidEmail(v) ==
  \E k \in 1..Len(v) :
    /\ v[k] = 64
    /\ k > 1
    /\ \A i \in 1..(k-1) : IsAtext(v[i])
    /\ IsDomain(SubSeq(v, k+1, Len(v)))

\* `required` on each of the three inputs: valueMissing when the value is empty.
ValueMissing(s) == s.name = <<>> \/ s.email = <<>> \/ s.password = <<>>

\* Variant: the password input without `required`.
FormValidNoPassword(s) ==
  s.name # <<>> /\ s.email # <<>> /\ ValidEmail(s.email)

\* The form's constraint validation: every input `required`, the email input
\* also type="email" (typeMismatch on a non-empty value that is no address).
FormValid(s) == ~ValueMissing(s) /\ ValidEmail(s.email)

\* A submit attempt (click on the type="submit" button, or Enter in a field):
\* the browser validates the form and fires onSubmit={handleSignup} only when
\* the form is valid; otherwise it reports the problem and nothing else happens.
SubmitAttempt(s) == IF FormValid(s) THEN handleSignup(s) ELSE s

\* ------------------------------------------------- markdown editor page
\* The template literal given to useState, cooked as JavaScript cooks it
\* (a backslash before a line end is a continuation, \f and \b are form feed
\* and backspace, \r is a carriage return, a backslash before any other
\* letter is dropped), as UTF-16 code units.
InitialDoc ==
  <<
     42, 42, 72, 101, 108, 108, 111, 32, 119, 111, 114, 108, 100, 33, 33, 33,
     42, 42, 10, 10, 76, 101, 116, 39, 115, 32, 116, 101, 115, 116, 32, 76,
     97, 84, 101, 88, 58, 10, 10, 73, 110, 108, 105, 110, 101, 32, 109, 97,
     116, 104, 58, 32, 36, 69, 32, 61, 32, 109, 99, 94, 50, 36, 10, 10,
     68, 105, 115, 112, 108, 97, 121, 32, 109, 97, 116, 104, 32, 40, 80, 97,
     110, 100, 111, 99, 32, 115, 116, 121, 108, 101, 41, 58, 10, 10, 36, 36,
     10, 105, 110, 116, 95, 48, 94, 105, 110, 102, 116, 121, 32, 120, 94, 50,
     32, 101, 94, 123, 45, 120, 125, 32, 100, 120, 32, 61, 32, 50, 10, 36,
     36, 10, 10, 68, 105, 115, 112, 108, 97, 121, 32, 109, 97, 116, 104, 32,
     40, 71, 105, 116, 76, 97, 98, 47, 71, 105, 116, 72, 117, 98, 32, 115,
     116, 121, 108, 101, 41, 58, 10, 10, 109, 97, 116, 104, 10, 12, 114, 97,
     99, 123, 100, 125, 123, 100, 120, 125, 32, 108, 101, 102, 116, 40, 32, 105,
     110, 116, 95, 48, 94, 120, 32, 102, 40, 117, 41, 32, 100, 117, 32, 13,
     105, 103, 104, 116, 41, 32, 61, 32, 102, 40, 120, 41, 10, 10, 65, 110,
     111, 116, 104, 101, 114, 32, 105, 110, 108, 105, 110, 101, 32, 101, 120, 97,
     109, 112, 108, 101, 58, 32, 36, 97, 108, 112, 104, 97, 32, 43, 32, 8,
     101, 116, 97, 32, 61, 32, 103, 97, 109, 109, 97, 36, 46, 10, 10, 77,
     111, 114, 101, 32, 99, 111, 109, 112, 108, 101, 120, 32, 100, 105, 115, 112,
     108, 97, 121, 32, 101, 113, 117, 97, 116, 105, 111, 110, 58, 10, 10, 36,
     36, 10, 115, 117, 109, 95, 123, 105, 61, 49, 125, 94, 123, 110, 125, 32,
     105, 32, 61, 32, 12, 114, 97, 99, 123, 110, 40, 110, 43, 49, 41, 125,
     123, 50, 125, 10, 36, 36, 10
  >>

\* JavaScript truthiness of a string-or-undefined value.
Truthy(val) == val.t = "string" /\ val.v # <<>>

\* a || b
Or(a, b) == IF Truthy(a) THEN a ELSE b

\* The page's render: <MDEditor value={value} .../> shows `value` as its text
\* and renders its built-in preview from it; <MDEditor.Markdown source={value}/>.
RenderEditor(value) ==
  [ value |-> value, text |-> value,
    previewSource |-> value, standaloneSource |-> value ]

\* useState(`...`) and the first render.
EditorInit == RenderEditor(Str(InitialDoc))

\* Variant: the reported value is stored as it is, without the || "".
onChangeNoDefault(e, val) == RenderEditor(val)

\* Variant: the handler keeps the previous document.
onChangeStale(e, val) == RenderEditor(e.value)

\* onChange={(val) => setValue(val || "")}
onChange(e, val) == RenderEditor(Or(val, Str(<<>>)))

\* --------------------------------------------------------- next.config.js
\* Variant: PWA packaging enabled only in production.
pwaOptionsProductionOnly(env) ==
  [ dest |-> "public", register |-> TRUE, skipWaiting |-> TRUE,
    disable |-> (env # Str("production")) ]

\* The options object given to require("next-pwa")(...).
pwaOptions(env) ==
  [ dest |-> "public", register |-> TRUE, skipWaiting |-> TRUE,
    disable |-> (env = Str("development")) ]

\* const nextConfig = { reactStrictMode: true, eslint: {...} }
nextConfig == [ reactStrictMode |-> TRUE, eslint |-> [ignoreDuringBuilds |-> TRUE] ]

\* module.exports = withPWA(nextConfig), for a given process.env.NODE_ENV.
moduleExports(env) ==
  [ loaded |-> TRUE, nodeEnv |-> env, pwa |-> pwaOptions(env), next |-> nextConfig ]

\* Before next.config.js is loaded.
NotLoaded == [ loaded |-> FALSE ]

\* ------------------------------------------------------------- actions
\* A change event on the name input.
TypeName(v) ==
  /\ signup' = SetName(signup, v)
  /\ typed' = [typed EXCEPT !.name = v]
  /\ lastOp' = "typeName"
  /\ UNCHANGED <<twin, editor, lastChange, config>>

\* A change event on the email input.
TypeEmail(v) ==
  /\ signup' = SetEmail(signup, v)
  /\ typed' = [typed EXCEPT !.email = v]
  /\ lastOp' = "typeEmail"
  /\ UNCHANGED <<twin, editor, lastChange, config>>

\* A change event on the password input.
TypePassword(v) ==
  /\ signup' = SetPassword(signup, v)
  /\ typed' = [typed EXCEPT !.password = v]
  /\ lastOp' = "typePassword"
  /\ UNCHANGED <<twin, editor, lastChange, config>>

\* The user attempts to submit the form.
ClickSubmit ==
  /\ Len(signup.alerts) < MaxAlerts
  /\ signup' = SubmitAttempt(signup)
  /\ lastOp' = IF FormValid(signup) THEN "submitted" ELSE "blocked"
  /\ UNCHANGED <<typed, twin, editor, lastChange, config>>

\* The editor reports a change.
EditorChange(val) ==
  /\ editor' = onChange(editor, val)
  /\ lastChange' = val
  /\ UNCHANGED <<signup, typed, lastOp, twin, config>>

\* The build tool loads next.config.js, once.
LoadConfig(env) ==
  /\ ~config.loaded
  /\ config' = moduleExports(env)
  /\ UNCHANGED <<signup, typed, lastOp, twin, editor, lastChange>>

Init ==
  /\ signup = SignupInit
  /\ typed = [name |-> NoEvent, email |-> NoEvent, password |-> NoEvent]
  /\ lastOp = "mounted"
  /\ twin = SignupInit
  /\ editor = EditorInit
  /\ lastChange = NoChange
  /\ config = NotLoaded

Next ==
  \/ \E v \in FieldValues : TypeName(v)
  \/ \E v \in FieldValues : TypeEmail(v)
  \/ \E v \in FieldValues : TypePassword(v)
  \/ ClickSubmit
  \/ \E val \in EditorEvents : EditorChange(val)
  \/ \E env \in NodeEnvs : LoadConfig(env)

Spec == Init /\ [][Next]_vars

\* ---- the handler invoked on its own: a submit event dispatched to the form
\* directly reaches onSubmit without the browser's validation.
DispatchSubmit ==
  /\ Len(signup.alerts) < MaxAlerts
  /\ signup' = handleSignup(signup)
  /\ lastOp' = "submitted"
  /\ UNCHANGED <<typed, twin, editor, lastChange, config>>

NextHandler ==
  \/ \E v \in FieldValues : TypeName(v)
  \/ \E v \in FieldValues : TypeEmail(v)
  \/ \E v \in FieldValues : TypePassword(v)
  \/ DispatchSubmit

SpecHandler == Init /\ [][NextHandler]_vars

\* ---- two mounted signup pages receiving the same name and email events
\* and their own password events.
BothTypeName(v) ==
  /\ signup' = SetName(signup, v)
  /\ twin' = SetName(twin, v)
  /\ lastOp' = "typeName"
  /\ UNCHANGED <<typed, editor, lastChange, config>>

BothTypeEmail(v) ==
  /\ signup' = SetEmail(signup, v)
  /\ twin' = SetEmail(twin, v)
  /\ lastOp' = "typeEmail"
  /\ UNCHANGED <<typed, editor, lastChange, config>>

FirstTypePassword(v) ==
  /\ signup' = SetPassword(signup, v)
  /\ lastOp' = "typePassword"
  /\ UNCHANGED <<typed, twin, editor, lastChange, config>>

SecondTypePassword(v) ==
  /\ twin' = SetPassword(twin, v)
  /\ lastOp' = "typePassword"
  /\ UNCHANGED <<typed, signup, editor, lastChange, config>>

BothClickSubmit ==
  /\ Len(signup.alerts) < MaxAlerts
  /\ Len(twin.alerts) < MaxAlerts
  /\ signup' = SubmitAttempt(signup)
  /\ twin' = SubmitAttempt(twin)
  /\ lastOp' = "submitAttempt"
  /\ UNCHANGED <<typed, editor, lastChange, config>>

NextPair ==
  \/ \E v \in FieldValues : BothTypeName(v)
  \/ \E v \in FieldValues : BothTypeEmail(v)
  \/ \E v \in FieldValues : FirstTypePassword(v)
  \/ \E v \in FieldValues : SecondTypePassword(v)
  \/ BothClickSubmit

SpecPair == Init /\ [][NextPair]_vars

\* ================================================================ claims
Last(s) == s[Len(s)]

\* needle occurs in hay as a contiguous run of code units.
Contains(hay, needle) ==
  \E i \in 0..(Len(hay) - Len(needle)) : SubSeq(hay, i + 1, i + Len(needle)) = needle

Fields == {"name", "email", "password"}

\* What a field must hold given the change events it has received.
Expected(f) == IF typed[f] = NoEvent THEN <<>> ELSE typed[f]

\* C1: each signup field holds and shows the value of the most recent change
\* event on that field, and the empty string if it has received none.
C1_FieldsFollowEvents ==
  \A f \in Fields : signup[f] = Expected(f) /\ signup.shown[f] = Expected(f)

C1_Witness ==
  /\ typed.name = <<120>> /\ signup.shown.name = <<120>>
  /\ typed.email = <<120, 64, 121>> /\ signup.shown.email = <<120, 64, 121>>
  /\ typed.password = NoEvent /\ signup.shown.password = <<>>

C3_EditorShowsLastValue ==
  LET all(x) == /\ editor.text = x
                /\ editor.previewSource = x
                /\ editor.standaloneSource = x
  IN /\ lastChange = NoChange => all(Str(InitialDoc))
     /\ lastChange.t = "string" => all(lastChange)

C3_Witness ==
  /\ lastChange = Str(<<36, 120, 36>>)
  /\ editor.text = Str(<<36, 120, 36>>)
  /\ editor.standaloneSource = Str(<<36, 120, 36>>)

\* C4: every invocation of handleSignup, whatever the fields hold, shows
\* exactly one alert and prevents the default once.
C4_HandlerAlwaysAlerts ==
  [][ signup'.invoked # signup.invoked =>
        /\ signup'.invoked = signup.invoked + 1
        /\ Len(signup'.alerts) = Len(signup.alerts) + 1
        /\ SubSeq(signup'.alerts, 1, Len(signup.alerts)) = signup.alerts
        /\ signup'.prevented = signup.prevented + 1 ]_vars

C4_Witness ==
  /\ lastOp = "submitted"
  /\ signup.name = <<>> /\ signup.email = <<120>> /\ signup.password = <<>>
  /\ signup.invoked = 1
  /\ signup.alerts = << AlertPrefix \o AlertSeparator \o <<120>> >>

\* The step is a submit attempt by the user on the signup page (no change
\* event, and nothing happening on the editor page or in the build).
AttemptStep ==
  /\ lastOp' \in {"submitted", "blocked"}
  /\ UNCHANGED <<typed, editor, lastChange, config>>

\* The attempt did not reach the handler and changed nothing on the page.
Rejected ==
  /\ signup'.invoked = signup.invoked
  /\ signup'.alerts = signup.alerts
  /\ \A f \in Fields : signup'[f] = signup[f]

\* C5 as stated: `required` is the only gate; an attempt with an empty field
\* is rejected and an attempt with all three fields non-empty reaches the
\* handler.
C5_RequiredIsTheOnlyGate ==
  [][ AttemptStep =>
        /\ ValueMissing(signup) => Rejected
        /\ ~ValueMissing(signup) => signup'.invoked = signup.invoked + 1 ]_vars

\* C5 amended: the gate is `required` on the three fields together with the
\* address check of the type="email" input; an attempt with an empty field or
\* an email that is no valid address is rejected, every other attempt reaches
\* the handler.
C5_NativeValidationIsTheOnlyGate ==
  [][ AttemptStep =>
        /\ (ValueMissing(signup) \/ ~ValidEmail(signup.email)) => Rejected
        /\ (~ValueMissing(signup) /\ ValidEmail(signup.email)) =>
              signup'.invoked = signup.invoked + 1 ]_vars

C5_Witness ==
  /\ lastOp = "blocked"
  /\ signup.name = <<120>> /\ signup.email = <<120, 64, 121>>
  /\ signup.password = <<>>
  /\ signup.invoked = 1

\* C6: PWA packaging is disabled exactly when NODE_ENV is "development";
\* otherwise it is enabled with dest "public", register and skipWaiting on.
C6_PwaDisabledOnlyInDevelopment ==
  config.loaded =>
    /\ config.pwa.disable <=> (config.nodeEnv = Str("development"))
    /\ ~config.pwa.disable =>
         /\ config.pwa.dest = "public"
         /\ config.pwa.register
         /\ config.pwa.skipWaiting

C6_Witness ==
  /\ config.loaded
  /\ config.nodeEnv = Undefined
  /\ ~config.pwa.disable

\* C7: handleSignup leaves name, email and password (and what the inputs
\* show) unchanged, and a submit right after a submit shows the same message.
C7_SubmitKeepsFields ==
  [][ signup'.invoked # signup.invoked =>
        /\ \A f \in Fields : signup'[f] = signup[f]
        /\ signup'.shown = signup.shown
        /\ lastOp = "submitted" => Last(signup'.alerts) = Last(signup.alerts) ]_vars

C7_Witness ==
  /\ lastOp = "submitted"
  /\ signup.invoked = 2
  /\ Len(signup.alerts) = 2 /\ signup.alerts[1] = signup.alerts[2]
  /\ signup.name = <<120>>

\* C8: a change event on one signup field leaves the other two fields
\* unchanged.
C8_ChangeTouchesOneField ==
  [][ /\ lastOp' = "typeName" =>
           signup'.email = signup.email /\ signup'.password = signup.password
      /\ lastOp' = "typeEmail" =>
           signup'.name = signup.name /\ signup'.password = signup.password
      /\ lastOp' = "typePassword" =>
           signup'.name = signup.name /\ signup'.email = signup.email ]_vars

C8_Witness ==
  /\ lastOp = "typePassword"
  /\ signup.name = <<120>> /\ signup.email = <<120, 64, 121>>
  /\ signup.password = <<120>>

\* C9: the editor's document is always a string, as is the source of both
\* previews; a change reporting undefined or "" sets it to "", any other
\* change sets it to the reported string.
C9_EditorValueIsString ==
  /\ editor.value.t = "string"
  /\ editor.text.t = "string"
  /\ editor.previewSource.t = "string"
  /\ editor.standaloneSource.t = "string"
  /\ (lastChange = Undefined \/ lastChange = Str(<<>>)) => editor.value = Str(<<>>)
  /\ (lastChange.t = "string" /\ lastChange.v # <<>>) => editor.value = lastChange

C9_Witness ==
  /\ lastChange = Undefined
  /\ editor.value = Str(<<>>)
  /\ editor.standaloneSource = Str(<<>>)

====
